---- MODULE Spec2Model ----
(***************************************************************************)
(* Front end of the Lox tree-walking interpreter: the scanner              *)
(* (src/src/scanner.rs) and the recursive-descent expression parser        *)
(* (src/src/parser.rs).                                                    *)
(*                                                                         *)
(* A character is a string; a source text is a sequence of characters     *)
(* (Rust's source.chars()).  A character outside ASCII is written by its   *)
(* code point ("U+00E9") and takes two bytes in UTF-8, so that the byte    *)
(* length source.len() and the number of characters differ as they do in   *)
(* the program.                                                            *)
(***************************************************************************)
EXTENDS Integers, Sequences, FiniteSets, TLC

VARIABLES scanner, tokens, scanResult, parser, parseResult,
          KEYWORDS, seen, threads, printer, lexer

vars == <<scanner, tokens, scanResult, parser, parseResult,
          KEYWORDS, seen, threads, printer, lexer>>

(***************************************************************************)
(* Bounds of the model.                                                    *)
(***************************************************************************)
MaxSrcLen == 4

MaxTokens == 4

MaxNodes == 5

NumThreads == 3

(***************************************************************************)
(* Characters.                                                             *)
(***************************************************************************)
None == "<none>"

Quote == "\""

Newline == "\n"

EAcute == "U+00E9"

MultiByteChars == {EAcute}

Digits == {"0", "1", "2", "3", "4", "5", "6", "7", "8", "9"}

AsciiLetters ==
    {"a", "b", "c", "d", "e", "f", "g", "h", "i", "j", "k", "l", "m",
     "n", "o", "p", "q", "r", "s", "t", "u", "v", "w", "x", "y", "z",
     "A", "B", "C", "D", "E", "F", "G", "H", "I", "J", "K", "L", "M",
     "N", "O", "P", "Q", "R", "S", "T", "U", "V", "W", "X", "Y", "Z"}

\* char::len_utf8 for the characters of the model
Utf8Len(c) == IF c \in MultiByteChars THEN 2 ELSE 1

RECURSIVE ByteLen(_)
\* String::len: the length of the text in bytes
ByteLen(s) == IF s = <<>> THEN 0 ELSE Utf8Len(Head(s)) + ByteLen(Tail(s))

IsDigit(c) == c \in Digits

is_valid_identifier_start(c) == c \in AsciiLetters \/ c = "_"

is_valid_identifier_char(c) == is_valid_identifier_start(c) \/ IsDigit(c)

(***************************************************************************)
(* Tokens.  A token is a record of its variant and its payload; the        *)
(* payload of a payload-free variant is the empty sequence.                *)
(***************************************************************************)
Tok(k) == [kind |-> k, val |-> <<>>]

TokIdent(s) == [kind |-> "Ident", val |-> s]

TokString(s) == [kind |-> "String", val |-> s]

TokNumber(v) == [kind |-> "Number", val |-> v]

\* the table built by keyword()
KeywordTable ==
    { <<<<"t", "r", "u", "e">>, "True">>,
      <<<<"f", "a", "l", "s", "e">>, "False">>,
      <<<<"a", "n", "d">>, "And">>,
      <<<<"o", "r">>, "Or">>,
      <<<<"i", "f">>, "If">>,
      <<<<"e", "l", "s", "e">>, "Else">>,
      <<<<"f", "o", "r">>, "For">>,
      <<<<"w", "h", "i", "l", "e">>, "While">>,
      <<<<"n", "i", "l">>, "Nil">>,
      <<<<"f", "u", "n">>, "Fun">>,
      <<<<"c", "l", "a", "s", "s">>, "Class">>,
      <<<<"r", "e", "t", "u", "r", "n">>, "Return">>,
      <<<<"s", "u", "p", "e", "r">>, "Super">>,
      <<<<"t", "h", "i", "s">>, "This">>,
      <<<<"v", "a", "r">>, "Var">>,
      <<<<"p", "r", "i", "n", "t">>, "Print">> }

\* the OnceLock KEYWORDS before its first use, and once it holds a table
KeywordsUninit == [state |-> "uninit", table |-> {}]

\* while one thread runs the closure of get_or_init
KeywordsRunning == [state |-> "running", table |-> {}]

KeywordsComplete(table) == [state |-> "complete", table |-> table]

\* KEYWORDS.get_or_init(|| ...) in one thread: the cell it leaves
get_or_init(cell) ==
    IF cell.state = "complete" THEN cell ELSE KeywordsComplete(KeywordTable)

\* keyword(s): the set holding the reserved-word token of s, empty when s is
\* no reserved word (Option<&Token>)
keyword(s) ==
    { Tok(e[2]) : e \in { x \in get_or_init(KEYWORDS).table : x[1] = s } }

\* the cell after a lookup that takes the entry of s out of the table
keyword_cell_RemovesEntry(cell, s) ==
    KeywordsComplete({ x \in get_or_init(cell).table : x[1] # s })

\* the cell KEYWORDS after keyword(s) returned: initialised, the table as
\* it was
keyword_cell(cell, s) == get_or_init(cell)

(***************************************************************************)
(* f64 parsing.  The value of a decimal text is represented by its         *)
(* canonical decimal text: no leading zero in the integer part beyond the  *)
(* last digit, no trailing zero in the fraction, no "." before an empty    *)
(* fraction.  Two texts denote the same f64 iff their canonical texts are  *)
(* equal (for the short texts of the model).                               *)
(***************************************************************************)
RECURSIVE StripLeadingZeros(_)
StripLeadingZeros(s) ==
    IF Len(s) > 1 /\ Head(s) = "0" THEN StripLeadingZeros(Tail(s)) ELSE s

RECURSIVE StripTrailingZeros(_)
StripTrailingZeros(s) ==
    IF s # <<>> /\ s[Len(s)] = "0"
    THEN StripTrailingZeros(SubSeq(s, 1, Len(s) - 1))
    ELSE s

DotIndex(s) ==
    IF \E i \in 1..Len(s) : s[i] = "."
    THEN CHOOSE i \in 1..Len(s) : s[i] = "."
    ELSE 0

\* str::parse::<f64> on a text of the shape number_lit builds
ParseF64(s) ==
    LET d == DotIndex(s)
        ip == IF d = 0 THEN s ELSE SubSeq(s, 1, d - 1)
        fp == IF d = 0 THEN <<>> ELSE SubSeq(s, d + 1, Len(s))
        i == StripLeadingZeros(ip)
        f == StripTrailingZeros(fp)
    IN  IF f = <<>> THEN i ELSE i \o <<".">> \o f

(***************************************************************************)
(* Scanner: the cursor primitives.                                         *)
(***************************************************************************)
\* Scanner::peek at cursor cur: source.chars().nth(cur)
peek(cur) == IF cur + 1 <= Len(scanner.source) THEN scanner.source[cur + 1] ELSE None

\* Scanner::peek_next
peek_next(cur) == peek(cur + 1)

\* Scanner::is_at_end: the cursor, a character index, against the byte length
is_at_end(cur) == cur >= ByteLen(scanner.source)

\* Scanner::advance panics when no character is at the cursor
AdvancePanics(cur) == peek(cur) = None

\* the InterpretError built by Error::message(&self.source, msg)
ErrorMessage(msg) ==
    [variant |-> "InterpretError", line_string |-> scanner.source, message |-> msg]

(***************************************************************************)
(* Outcomes of the scanner's procedures: the cursor and line counter they  *)
(* leave, and how they ended ("ok", "err" with the error, "panic").        *)
(***************************************************************************)
Outcome(st, cur, ln, val, err) ==
    [status |-> st, current |-> cur, line |-> ln, val |-> val, err |-> err]

NoErr == [variant |-> "none", line_string |-> <<>>, message |-> <<>>]

Ok(cur, ln, val) == Outcome("ok", cur, ln, val, NoErr)

Err(cur, ln, e) == Outcome("err", cur, ln, <<>>, e)

Panic(cur, ln) == Outcome("panic", cur, ln, <<>>, NoErr)

(***************************************************************************)
(* Scanner: the literal and comment procedures.                            *)
(***************************************************************************)
RECURSIVE StringLitLoop(_, _, _)
\* the loop of string_lit with the line counter left alone
StringLitLoop_NoLineCount(cur, ln, s) ==
    IF peek(cur) # Quote /\ ~is_at_end(cur)
    THEN IF AdvancePanics(cur)
         THEN Panic(cur, ln)
         ELSE StringLitLoop(cur + 1, ln, Append(s, peek(cur)))
    ELSE Ok(cur, ln, s)

\* the while loop of string_lit
StringLitLoop(cur, ln, s) ==
    IF peek(cur) # Quote /\ ~is_at_end(cur)
    THEN IF AdvancePanics(cur)
         THEN Panic(cur, ln)
         ELSE StringLitLoop(cur + 1,
                            IF peek(cur) = Newline THEN ln + 1 ELSE ln,
                            Append(s, peek(cur)))
    ELSE Ok(cur, ln, s)

\* Scanner::string_lit, entered with the cursor just past the opening quote
string_lit(cur, ln) ==
    LET r == StringLitLoop(cur, ln, <<>>)
    IN  IF r.status = "panic" THEN r
        ELSE IF is_at_end(r.current)
        THEN Err(r.current, r.line, ErrorMessage(<<"Unterminated string">>))
        ELSE IF AdvancePanics(r.current) THEN Panic(r.current, r.line)
        ELSE Ok(r.current + 1, r.line, r.val)

RECURSIVE DigitRun(_, _)
\* while self.peek().is_some_and(|c| c.is_digit(10)) { s.push(self.advance()) }
DigitRun(cur, s) ==
    IF IsDigit(peek(cur))
    THEN DigitRun(cur + 1, Append(s, peek(cur)))
    ELSE [current |-> cur, s |-> s]

\* number_lit taking the "." whatever follows it
number_lit_DotWithoutDigit(cur, ln, c) ==
    LET a == DigitRun(cur, <<c>>)
        b == IF peek(a.current) = "."
             THEN DigitRun(a.current + 1, Append(a.s, "."))
             ELSE a
    IN  Ok(b.current, ln, ParseF64(b.s))

\* Scanner::number_lit, entered with the cursor just past the first digit c
number_lit(cur, ln, c) ==
    LET a == DigitRun(cur, <<c>>)
        b == IF peek(a.current) = "." /\ IsDigit(peek_next(a.current))
             THEN DigitRun(a.current + 1, Append(a.s, "."))
             ELSE a
    IN  Ok(b.current, ln, ParseF64(b.s))

\* the cursor at the end of the run of characters of S from cursor i
RunEnd0(i, S) ==
    CHOOSE j \in i..Len(scanner.source) :
        /\ \A k \in (i + 1)..j : scanner.source[k] \in S
        /\ j = Len(scanner.source) \/ scanner.source[j + 1] \notin S

RECURSIVE IdentRun(_, _)
\* the while loop of identifier
IdentRun(cur, s) ==
    IF is_valid_identifier_char(peek(cur))
    THEN IdentRun(cur + 1, Append(s, peek(cur)))
    ELSE [current |-> cur, s |-> s]

\* identifier stopping at a digit
identifier_StopsAtDigit(cur, c) ==
    LET a == RunEnd0(cur, AsciiLetters \cup {"_"})
    IN  [current |-> a, s |-> <<c>> \o SubSeq(scanner.source, cur + 1, a)]

\* Scanner::identifier, entered with the cursor just past the first character c
identifier(cur, c) == IdentRun(cur, <<c>>)

RECURSIVE comment(_, _)
\* Scanner::comment, entered with the cursor just past the second slash
comment(cur, ln) ==
    IF peek(cur) # Newline /\ ~is_at_end(cur)
    THEN IF AdvancePanics(cur) THEN Panic(cur, ln) ELSE comment(cur + 1, ln)
    ELSE Ok(cur, ln, <<>>)

\* next_matches with the cursor left where it is on a match
next_matches_NoConsume(cur, c) ==
    IF is_at_end(cur) THEN [matched |-> FALSE, current |-> cur]
    ELSE [matched |-> peek(cur) = c, current |-> cur]

\* next_matches with the cursor advanced before the comparison
next_matches_AlwaysConsume(cur, c) ==
    IF is_at_end(cur) THEN [matched |-> FALSE, current |-> cur]
    ELSE [matched |-> peek(cur) = c, current |-> cur + 1]

\* Scanner::next_matches: whether the character at the cursor is c, and the
\* cursor afterwards
next_matches(cur, c) ==
    IF is_at_end(cur) THEN [matched |-> FALSE, current |-> cur]
    ELSE IF peek(cur) # c THEN [matched |-> FALSE, current |-> cur]
    ELSE [matched |-> TRUE, current |-> cur + 1]

\* the arms '=' '!' '>' '<' of read_token
OneOrTwo(cur, ln, two, one) ==
    LET m == next_matches(cur, "=")
    IN  Ok(m.current, ln, <<Tok(IF m.matched THEN two ELSE one)>>)

SingleCharTokens ==
    { <<",", "Comma">>, <<".", "Dot">>, <<"+", "Plus">>, <<"-", "Minus">>,
      <<"*", "Star">>, <<"(", "LeftParen">>, <<")", "RightParen">>,
      <<"{", "LeftBrace">>, <<"}", "RightBrace">>, <<";", "Semicolon">> }

SingleChars == { e[1] : e \in SingleCharTokens }

SingleKind(c) == (CHOOSE e \in SingleCharTokens : e[1] = c)[2]

\* the '/' arm of read_token
SlashArm(cur, ln) ==
    LET m == next_matches(cur, "/")
    IN  IF m.matched THEN comment(m.current, ln) ELSE Ok(m.current, ln, <<Tok("Slash")>>)

\* the '"' arm of read_token
StringArm(cur, ln) ==
    LET r == string_lit(cur, ln)
    IN  IF r.status = "ok" THEN Ok(r.current, r.line, <<TokString(r.val)>>) ELSE r

\* the identifier arm of read_token
IdentArm(cur, ln, c) ==
    LET r == identifier(cur, c)
    IN  Ok(r.current, ln,
           IF keyword(r.s) # {}
           THEN <<CHOOSE t \in keyword(r.s) : TRUE>>
           ELSE <<TokIdent(r.s)>>)

\* the catch-all arm of read_token
UnexpectedArm(cur, ln, c) ==
    Err(cur, ln, ErrorMessage(<<"Unexpected character '", c, "'">>))

\* Scanner::read_token from cursor cur and line ln; val is <<>> for
\* Ok(None) and <<token>> for Ok(Some(token))
read_token(cur, ln) ==
    IF AdvancePanics(cur) THEN Panic(cur, ln)
    ELSE LET c == peek(cur)
             nx == cur + 1
         IN  CASE c = Quote -> StringArm(nx, ln)
               [] c \in SingleChars -> Ok(nx, ln, <<Tok(SingleKind(c))>>)
               [] c = "=" -> OneOrTwo(nx, ln, "EqEq", "Eq")
               [] c = "!" -> OneOrTwo(nx, ln, "Ne", "Not")
               [] c = ">" -> OneOrTwo(nx, ln, "Ge", "Gt")
               [] c = "<" -> OneOrTwo(nx, ln, "Le", "Lt")
               [] c = "/" -> SlashArm(nx, ln)
               [] c \in {" ", "\r", "\t"} -> Ok(nx, ln, <<>>)
               [] c = Newline -> Ok(nx, ln + 1, <<>>)
               [] OTHER ->
                    IF IsDigit(c)
                    THEN LET r == number_lit(nx, ln, c)
                         IN  Ok(r.current, r.line, <<TokNumber(r.val)>>)
                    ELSE IF is_valid_identifier_start(c) THEN IdentArm(nx, ln, c)
                    ELSE UnexpectedArm(nx, ln, c)

(***************************************************************************)
(* Scanner::read_tokens as a state machine: one step per iteration of its  *)
(* loop, one step for the return after the loop.                           *)
(***************************************************************************)
NoResult == [kind |-> "None", tokens |-> <<>>, err |-> NoErr]

Running == scanResult.kind = "None"

\* KEYWORDS after the read_token call at the cursor: the identifier arm,
\* and no other, calls keyword() on the identifier it read
KeywordsAfterReadToken ==
    IF is_valid_identifier_start(peek(scanner.current))
    THEN keyword_cell(KEYWORDS,
                      identifier(scanner.current + 1, peek(scanner.current)).s)
    ELSE KEYWORDS

\* ReadToken with the error of read_token swallowed: the loop goes on
ReadToken_SkipsError ==
    /\ Running
    /\ ~is_at_end(scanner.current)
    /\ LET r == read_token(scanner.current, scanner.line)
       IN  /\ scanner' = [scanner EXCEPT !.current = r.current, !.line = r.line]
           /\ CASE r.status \in {"ok", "err"} ->
                     /\ tokens' = tokens \o r.val
                     /\ scanResult' = scanResult
                [] r.status = "panic" ->
                     /\ tokens' = <<>>
                     /\ scanResult' = [kind |-> "Panic", tokens |-> <<>>, err |-> NoErr]
    /\ KEYWORDS' = KeywordsAfterReadToken
    /\ UNCHANGED <<parser, parseResult, seen, threads, printer, lexer>>

\* one iteration of the while loop of read_tokens
ReadToken ==
    /\ Running
    /\ ~is_at_end(scanner.current)
    /\ LET r == read_token(scanner.current, scanner.line)
       IN  /\ scanner' = [scanner EXCEPT !.current = r.current, !.line = r.line]
           /\ CASE r.status = "ok" ->
                     /\ tokens' = tokens \o r.val
                     /\ scanResult' = scanResult
                [] r.status = "err" ->
                     /\ tokens' = <<>>
                     /\ scanResult' = [kind |-> "Err", tokens |-> <<>>, err |-> r.err]
                [] r.status = "panic" ->
                     /\ tokens' = <<>>
                     /\ scanResult' = [kind |-> "Panic", tokens |-> <<>>, err |-> NoErr]
    /\ KEYWORDS' = KeywordsAfterReadToken
    /\ UNCHANGED <<parser, parseResult, seen, threads, printer, lexer>>

\* PushEof without the push: the loop's exit returns the tokens as they are
PushEof_NoPush ==
    /\ Running
    /\ is_at_end(scanner.current)
    /\ scanResult' = [kind |-> "Ok", tokens |-> tokens, err |-> NoErr]
    /\ tokens' = <<>>
    /\ UNCHANGED <<scanner, parser, parseResult, KEYWORDS, seen, threads, printer, lexer>>

\* the loop's exit: tokens.push(Token::Eof); Ok(tokens)
PushEof ==
    /\ Running
    /\ is_at_end(scanner.current)
    /\ scanResult' = [kind |-> "Ok", tokens |-> Append(tokens, Tok("Eof")), err |-> NoErr]
    /\ tokens' = <<>>
    /\ UNCHANGED <<scanner, parser, parseResult, KEYWORDS, seen, threads, printer, lexer>>

(***************************************************************************)
(* The scanner's specification: Scanner::new on a source text, then        *)
(* read_tokens.  The texts are all texts of at most MaxSrcLen characters   *)
(* over SourceAlphabet, and the texts of ExampleSources.                   *)
(***************************************************************************)
BoundedSeq(S, n) == UNION { [1..k -> S] : k \in 0..n }

SourceAlphabet ==
    {Quote, "=", "!", "<", "/", Newline, " ", "1", ".", "a", "@", EAcute}

ExampleSources ==
    { <<"6", "/", "3", "-", "1">>,
      <<"/", "/", " ", "c", "o", "m", "m", "e", "n", "t", Newline, "4", "2">>,
      <<Quote, "a", "b", "c">>,
      <<">", "=", ">", "<", "=", "!", "=", "=", "=">>,
      <<Quote, "a", Newline, "b", Quote, "@">>,
      <<"o", "r", " ", "o", "r", "1">>,
      <<"o", "r">>,
      <<"(", "-", ")", "{", ";", "}", "*", "+", ",", ".", "/", ">", "=">>,
      <<"o", "r", "c", "h", "i", "d">>,
      <<"_", "o", "r">>,
      <<"o", "r", "1">>,
      <<"n", "i", "l", "=", "t", "r", "u", "e">>,
      <<"a", " ", "\r", "\t", Newline, "b">>,
      <<"/", "/", Newline, Quote, Newline, Quote, " ", Newline>>,
      <<"1", ".", "5", ".", "2">>,
      <<"0", "1", ".", "5", "0">> }

Sources == BoundedSeq(SourceAlphabet, MaxSrcLen) \cup ExampleSources

\* Parser::new and its result, before any parse
IdleParser == [tokens |-> <<>>, current |-> 0]

NoParse == [kind |-> "None", expr |-> [type |-> "None"], msg |-> ""]

\* no thread of the keyword race, no expression to print
IdleThreads == <<>>

IdlePrinter == [expr |-> [type |-> "None"], out |-> <<>>, done |-> FALSE]

\* the Lexer of main.rs at a cursor, with the tokens of its read_tokens, its
\* result, and the place it was at before its last step
LexerAt(source, cur, ln, toks, result, prev) ==
    [source |-> source, current |-> cur, line |-> ln, tokens |-> toks,
     result |-> result, prev |-> prev]

\* no Lexer
IdleLexer == LexerAt(<<>>, 0, 1, <<>>, NoResult, <<0, 1, <<>>>>)

\* Scanner::new(source)
Init ==
    /\ \E s \in Sources : scanner = [source |-> s, line |-> 1, current |-> 0]
    /\ tokens = <<>>
    /\ scanResult = NoResult
    /\ parser = IdleParser
    /\ parseResult = NoParse
    /\ KEYWORDS = KeywordsUninit
    /\ seen = {}
    /\ threads = IdleThreads
    /\ printer = IdlePrinter
    /\ lexer = IdleLexer

Next == ReadToken \/ PushEof

Spec == Init /\ [][Next]_vars

(***************************************************************************)
(* Helpers of the scanner's properties.                                    *)
(***************************************************************************)
Min(S) == CHOOSE x \in S : \A y \in S : x <= y

Src == scanner.source

\* the character the next read_token call starts with
Cur == peek(scanner.current)

NoEofIn(ts) == \A i \in DOMAIN ts : ts[i].kind # "Eof"

\* C1: whenever read_tokens returns Ok, the returned sequence ends with Eof,
\* holds no other Eof, and the cursor is at the end of the source; no Eof is
\* among the tokens while the loop runs.
C1_ExactlyOneEofLast ==
    /\ Running => NoEofIn(tokens)
    /\ scanResult.kind = "Ok" =>
         LET ts == scanResult.tokens
         IN  /\ Len(ts) >= 1
             /\ ts[Len(ts)] = Tok("Eof")
             /\ NoEofIn(SubSeq(ts, 1, Len(ts) - 1))
             /\ is_at_end(scanner.current)
             /\ scanner.current >= Len(Src)

C1_Witness ==
    /\ scanResult.kind = "Ok"
    /\ Len(scanResult.tokens) >= 3
    /\ Len(Src) = MaxSrcLen

\* the 1-based indexes of the quotes after the opening quote at the cursor
ClosingQuotes == { j \in (scanner.current + 2)..Len(Src) : Src[j] = Quote }

C6_Step ==
    (Running /\ Cur = Quote) =>
        IF ClosingQuotes = {}
        THEN /\ scanResult'.kind = "Err"
             /\ scanResult'.err.message = <<"Unterminated string">>
             /\ scanResult'.tokens = <<>>
        ELSE LET j == Min(ClosingQuotes)
             IN  /\ scanResult'.kind = "None"
                 /\ tokens' = Append(tokens,
                                     TokString(SubSeq(Src, scanner.current + 2, j - 1)))
                 /\ scanner'.current = j

\* C6: a read_token call that starts on a quote either finds no closing
\* quote, and read_tokens returns the "Unterminated string" error and no
\* tokens, or emits the String token of the characters strictly between the
\* two quotes and leaves the cursor just past the closing quote.
C6_StringLiteral == [][C6_Step]_vars

\* the characters that start a token or are skipped
StartsToken(c) ==
    \/ c \in SingleChars
    \/ c \in {"=", "!", ">", "<", "/"}
    \/ c \in {" ", "\r", "\t", Newline}
    \/ c = Quote
    \/ c \in Digits
    \/ c \in AsciiLetters
    \/ c = "_"

C7_Step ==
    (Running /\ Cur # None /\ ~StartsToken(Cur)) =>
        /\ scanResult'.kind = "Err"
        /\ scanResult'.err.message = <<"Unexpected character '", Cur, "'">>
        /\ "line_index" \in DOMAIN scanResult'.err
        /\ scanResult'.err.line_index = scanner.line

\* C7: a read_token call that starts on a character starting no token makes
\* read_tokens fail with the "Unexpected character" error carrying that
\* character and the value of the line counter.
C7_UnexpectedCharCarriesLine == [][C7_Step]_vars

\* the part of C7 the scanner does implement: the error and its character
C7_CarriesChar ==
    [][(Running /\ Cur # None /\ ~StartsToken(Cur)) =>
          /\ scanResult'.kind = "Err"
          /\ scanResult'.err.message = <<"Unexpected character '", Cur, "'">>
          /\ scanResult'.err.line_string = Src]_vars

C8_Step ==
    /\ scanResult.kind = "Err" => UNCHANGED vars
    /\ (/\ Running
        /\ ~is_at_end(scanner.current)
        /\ read_token(scanner.current, scanner.line).status = "err") =>
          /\ scanResult'.kind = "Err"
          /\ scanResult'.err = read_token(scanner.current, scanner.line).err
          /\ scanner'.current = read_token(scanner.current, scanner.line).current
    /\ (Running /\ scanResult'.kind = "Err") =>
          /\ scanResult'.tokens = <<>>
          /\ tokens' = <<>>
          /\ \/ /\ scanResult'.err.message = <<"Unterminated string">>
                /\ scanner'.current >= Len(Src)
             \/ /\ Len(scanResult'.err.message) = 3
                /\ scanner'.current <= Len(Src)
                /\ scanResult'.err.message[2] = Src[scanner'.current]
                /\ ~StartsToken(Src[scanner'.current])

\* C8: the step on which read_token fails makes read_tokens return that
\* error, without the tokens accumulated so far, with the cursor no further
\* than the failing character (the end of the text for a string left open),
\* and the scanner takes no step after an error.
C8_StopsAtFirstError == [][C8_Step]_vars

C8_Witness ==
    /\ scanResult.kind = "Err"
    /\ scanner.current >= 3
    /\ scanner.current < Len(Src)

C9_Pairs ==
    { <<"=", "EqEq", "Eq">>, <<"!", "Ne", "Not">>,
      <<">", "Ge", "Gt">>, <<"<", "Le", "Lt">> }

C9_Step ==
    \A p \in C9_Pairs :
        (Running /\ Cur = p[1]) =>
            /\ scanResult'.kind = "None"
            /\ scanner'.line = scanner.line
            /\ IF peek_next(scanner.current) = "="
               THEN /\ scanner'.current = scanner.current + 2
                    /\ tokens' = Append(tokens, Tok(p[2]))
               ELSE /\ scanner'.current = scanner.current + 1
                    /\ tokens' = Append(tokens, Tok(p[3]))

\* C9: a read_token call that starts on = ! > or < consumes two characters
\* and emits the two-character token when the next character is =, and
\* otherwise (the end of the text included) consumes one character and emits
\* the one-character token.
C9_OneCharLookahead == [][C9_Step]_vars

C9_Witness ==
    /\ Running
    /\ Len(tokens) = 2
    /\ tokens[1] = Tok("Le")
    /\ tokens[2] = Tok("Not")
    /\ scanner.current = 3
    /\ Len(Src) = 3

\* the 0-based index of the first newline at or after 0-based index i, the
\* length of the text when there is none
LineEnd(i) ==
    LET nl == { j \in (i + 1)..Len(Src) : Src[j] = Newline }
    IN  IF nl = {} THEN Len(Src) ELSE Min(nl) - 1

CommentExample ==
    <<"/", "/", " ", "c", "o", "m", "m", "e", "n", "t", Newline, "4", "2">>

C10_Step ==
    /\ (Running /\ Cur = "/") =>
          /\ scanResult'.kind = "None"
          /\ scanner'.line = scanner.line
          /\ IF peek_next(scanner.current) = "/"
             THEN /\ tokens' = tokens
                  /\ scanner'.current = LineEnd(scanner.current + 2)
             ELSE /\ tokens' = Append(tokens, Tok("Slash"))
                  /\ scanner'.current = scanner.current + 1
    /\ (Running /\ Cur = Newline) =>
          /\ scanResult'.kind = "None"
          /\ scanner'.line = scanner.line + 1
          /\ scanner'.current = scanner.current + 1
          /\ tokens' = tokens

C10_Example ==
    (Src = CommentExample /\ ~Running) =>
        /\ scanResult.kind = "Ok"
        /\ scanResult.tokens = <<TokNumber(<<"4", "2">>), Tok("Eof")>>
        /\ scanner.line = 2

\* C10: a read_token call that starts on // discards the characters up to the
\* next newline or the end of the text, emits no token and leaves the line
\* counter alone; the newline is consumed by the next call, which adds one to
\* the line counter; a / not followed by / gives Slash; the text
\* "// comment\n42" scans to [Number(42), Eof].
C10_LineComment == [][C10_Step]_vars /\ []C10_Example

(***************************************************************************)
(* AST (src/src/ast.rs).                                                   *)
(***************************************************************************)
Literal(t) == [type |-> "Literal", tok |-> t]

Unary(op, e) == [type |-> "Unary", op |-> op, rhs |-> e]

Binary(l, op, r) == [type |-> "Binary", lhs |-> l, op |-> op, rhs |-> r]

Grouping(e) == [type |-> "Grouping", expr |-> e]

NoExpr == [type |-> "None"]

(***************************************************************************)
(* Parser: the cursor primitives.  The cursor is passed along; the tokens  *)
(* are parser.tokens.                                                      *)
(***************************************************************************)
\* Parser::peek is Some at cursor cur
Parser_has(cur) == cur + 1 <= Len(parser.tokens)

\* Parser::peek at cursor cur, where it is Some
Parser_peek(cur) == parser.tokens[cur + 1]

\* Parser::previous at cursor cur (cur > 0 wherever the parser calls it)
Parser_previous(cur) == parser.tokens[cur]

\* Parser::is_at_end
Parser_is_at_end(cur) == ~Parser_has(cur) \/ Parser_peek(cur).kind = "Eof"

\* advance without the is_at_end test
Parser_advance_Unchecked(cur) == cur + 1

\* Parser::advance
Parser_advance(cur) == IF ~Parser_is_at_end(cur) THEN cur + 1 ELSE cur

\* Parser::match_any on the payload-free tokens of the kinds given
match_any(cur, kinds) ==
    IF \E i \in DOMAIN kinds :
           ~Parser_is_at_end(cur) /\ Parser_has(cur) /\ Parser_peek(cur) = Tok(kinds[i])
    THEN [matched |-> TRUE, current |-> Parser_advance(cur)]
    ELSE [matched |-> FALSE, current |-> cur]

\* Parser::match_string
match_string(cur) ==
    IF Parser_has(cur) /\ Parser_peek(cur).kind = "String"
    THEN [matched |-> TRUE, current |-> Parser_advance(cur)]
    ELSE [matched |-> FALSE, current |-> cur]

\* Parser::match_number
match_number(cur) ==
    IF Parser_has(cur) /\ Parser_peek(cur).kind = "Number"
    THEN [matched |-> TRUE, current |-> Parser_advance(cur)]
    ELSE [matched |-> FALSE, current |-> cur]

(***************************************************************************)
(* Parser: the grammar procedures.  Each returns the expression built and  *)
(* the cursor left, or the panic that unwinds the whole parse.             *)
(***************************************************************************)
Parsed(e, cur) == [status |-> "ok", expr |-> e, current |-> cur, msg |-> ""]

ParsePanic(cur, msg) == [status |-> "panic", expr |-> NoExpr, current |-> cur, msg |-> msg]

\* the binary operators of the ladder, with term and factor exchanged
BinaryOps_TermFactorSwapped(level) ==
    CASE level = "equality" -> <<"Ne", "EqEq">>
      [] level = "comparison" -> <<"Gt", "Ge", "Lt", "Le">>
      [] level = "term" -> <<"Slash", "Star">>
      [] level = "factor" -> <<"Plus", "Minus">>

\* the operators each binary level of the ladder matches
BinaryOps(level) ==
    CASE level = "equality" -> <<"Ne", "EqEq">>
      [] level = "comparison" -> <<"Gt", "Ge", "Lt", "Le">>
      [] level = "term" -> <<"Plus", "Minus">>
      [] level = "factor" -> <<"Slash", "Star">>

RECURSIVE parse_expression(_), parse_equality(_), EqualityLoop(_, _),
          parse_comparison(_), ComparisonLoop(_, _), parse_term(_), TermLoop(_, _),
          parse_factor(_), FactorLoop(_, _), parse_unary(_), parse_primary(_)

\* a panic unwinds: the rest of the procedure runs only on a result
Then(r, rest(_)) == IF r.status = "panic" THEN r ELSE rest(r)

\* CloseGroup handing back the inner expression itself, with no Grouping
CloseGroup_BareInner(r) ==
    LET close == match_any(r.current, <<"RightParen">>)
    IN  IF ~close.matched
        THEN ParsePanic(r.current, "Missing closing parenthesis")
        ELSE Parsed(r.expr, close.current)

\* parse_primary after self.parse_expression() returned r: the closing
\* parenthesis is required
CloseGroup(r) ==
    LET close == match_any(r.current, <<"RightParen">>)
    IN  IF ~close.matched
        THEN ParsePanic(r.current, "Missing closing parenthesis")
        ELSE Parsed(Grouping(r.expr), close.current)

\* the literal arm of parse_primary after a match m
LiteralAt(m) == Parsed(Literal(Parser_previous(m.current)), m.current)

\* Parser::parse_primary
parse_primary(cur) ==
    LET lit == match_any(cur, <<"False", "True", "Nil">>)
        num == match_number(cur)
        str == match_string(cur)
        par == match_any(cur, <<"LeftParen">>)
    IN  IF lit.matched THEN LiteralAt(lit)
        ELSE IF num.matched THEN LiteralAt(num)
        ELSE IF str.matched THEN LiteralAt(str)
        ELSE IF par.matched THEN Then(parse_expression(par.current), CloseGroup)
        ELSE ParsePanic(cur, "Failed to parse primary expression")

\* parse_unary with its operand parsed as a factor
parse_unary_OperandAtFactor(cur) ==
    LET m == match_any(cur, <<"Not", "Minus">>)
        Wrap(r) == Parsed(Unary(Parser_previous(m.current), r.expr), r.current)
    IN  IF m.matched THEN Then(parse_factor(m.current), Wrap) ELSE parse_primary(cur)

\* Parser::parse_unary
parse_unary(cur) ==
    LET m == match_any(cur, <<"Not", "Minus">>)
        Wrap(r) == Parsed(Unary(Parser_previous(m.current), r.expr), r.current)
    IN  IF m.matched THEN Then(parse_unary(m.current), Wrap) ELSE parse_primary(cur)

\* the while loop of parse_factor
FactorLoop(expr, cur) ==
    LET m == match_any(cur, BinaryOps("factor"))
        Fold(r) == FactorLoop(Binary(expr, Parser_previous(m.current), r.expr), r.current)
    IN  IF ~m.matched THEN Parsed(expr, cur) ELSE Then(parse_unary(m.current), Fold)

\* Parser::parse_factor
parse_factor(cur) ==
    LET Loop(l) == FactorLoop(l.expr, l.current)
    IN  Then(parse_unary(cur), Loop)

\* TermLoop with the right operand parsed at the term level itself
TermLoop_RightOperandAtTerm(expr, cur) ==
    LET m == match_any(cur, BinaryOps("term"))
        Fold(r) == TermLoop(Binary(expr, Parser_previous(m.current), r.expr), r.current)
    IN  IF ~m.matched THEN Parsed(expr, cur) ELSE Then(parse_term(m.current), Fold)

\* the while loop of parse_term
TermLoop(expr, cur) ==
    LET m == match_any(cur, BinaryOps("term"))
        Fold(r) == TermLoop(Binary(expr, Parser_previous(m.current), r.expr), r.current)
    IN  IF ~m.matched THEN Parsed(expr, cur) ELSE Then(parse_factor(m.current), Fold)

\* Parser::parse_term
parse_term(cur) ==
    LET Loop(l) == TermLoop(l.expr, l.current)
    IN  Then(parse_factor(cur), Loop)

\* the while loop of parse_comparison
ComparisonLoop(expr, cur) ==
    LET m == match_any(cur, BinaryOps("comparison"))
        Fold(r) ==
            ComparisonLoop(Binary(expr, Parser_previous(m.current), r.expr), r.current)
    IN  IF ~m.matched THEN Parsed(expr, cur) ELSE Then(parse_term(m.current), Fold)

\* Parser::parse_comparison
parse_comparison(cur) ==
    LET Loop(l) == ComparisonLoop(l.expr, l.current)
    IN  Then(parse_term(cur), Loop)

\* the while loop of parse_equality
EqualityLoop(expr, cur) ==
    LET m == match_any(cur, BinaryOps("equality"))
        Fold(r) ==
            EqualityLoop(Binary(expr, Parser_previous(m.current), r.expr), r.current)
    IN  IF ~m.matched THEN Parsed(expr, cur) ELSE Then(parse_comparison(m.current), Fold)

\* Parser::parse_equality
parse_equality(cur) ==
    LET Loop(l) == EqualityLoop(l.expr, l.current)
    IN  Then(parse_comparison(cur), Loop)

\* Parser::parse_expression
parse_expression(cur) == parse_equality(cur)

\* Parser::parse
parse(cur) == parse_expression(cur)

(***************************************************************************)
(* The parser's specification: Parser::new on a token sequence, then       *)
(* parse.  The sequences are all sequences of at most MaxTokens tokens     *)
(* over TokenAlphabet, and the sequences of ExampleTokens.                 *)
(***************************************************************************)
Num(d) == TokNumber(<<d>>)

TokenAlphabet ==
    { Num("1"), Tok("Minus"), Tok("Slash"), Tok("Lt"), Tok("EqEq"), Tok("Not"),
      Tok("LeftParen"), Tok("RightParen"), Tok("Eof"), TokIdent(<<"a">>) }

LevelNames == {"equality", "comparison", "term", "factor"}

OpsOf(level) == { Tok(BinaryOps(level)[i]) : i \in DOMAIN BinaryOps(level) }

PrimaryTokens == { Num("1"), Num("2"), TokString(<<"a">>), Tok("True"), Tok("Nil") }

\* a op1 b op2 c Eof, with op1 and op2 of one level
ChainTokens ==
    { <<Num("1"), o1, Num("2"), o2, Num("3"), Tok("Eof")>> :
          <<o1, o2>> \in UNION { OpsOf(l) \X OpsOf(l) : l \in LevelNames } }
    \cup
    { <<a, Tok("Minus"), b, Tok("Plus"), c, Tok("Minus"), a, Tok("Eof")>> :
          <<a, b, c>> \in PrimaryTokens \X PrimaryTokens \X PrimaryTokens }

ExampleTokens ==
    { <<Num("6"), Tok("Slash"), Num("3"), Tok("Minus"), Num("1"), Tok("Eof")>>,
      <<Num("1"), Tok("Minus"), Num("2"), Tok("Minus"), Num("3"), Tok("Eof")>>,
      <<Num("1"), Tok("EqEq"), Num("2"), Tok("Lt"), Num("3"), Tok("Plus"),
        Num("4"), Tok("Star"), Tok("Minus"), Num("5"), Tok("Eof")>>,
      <<Num("1"), Tok("Star"), Tok("LeftParen"), Num("2"), Tok("Plus"), Num("3"),
        Tok("RightParen"), Tok("Eof")>>,
      <<Num("1"), Tok("Star"), Num("2"), Tok("Minus"), Num("3"), Tok("Slash"),
        Num("4"), Tok("Eof")>>,
      <<Tok("Not"), Tok("Minus"), Num("1"), Tok("Eof")>>,
      <<Tok("Minus"), Num("1"), Tok("Star"), Num("2"), Tok("Eof")>>,
      <<Num("1"), Num("2"), Tok("Eof")>>,
      <<Num("1"), Tok("RightParen"), Tok("Eof")>> }

TokenSeqs == BoundedSeq(TokenAlphabet, MaxTokens) \cup ChainTokens \cup ExampleTokens

IdleScanner == [source |-> <<>>, line |-> 1, current |-> 0]

\* Parser::new(tokens)
ParserInit ==
    /\ \E ts \in TokenSeqs : parser = [tokens |-> ts, current |-> 0]
    /\ parseResult = NoParse
    /\ scanner = IdleScanner
    /\ tokens = <<>>
    /\ scanResult = NoResult
    /\ KEYWORDS = KeywordsUninit
    /\ seen = {}
    /\ threads = IdleThreads
    /\ printer = IdlePrinter
    /\ lexer = IdleLexer

\* Parser::parse, from the call to its return or its panic
Parse ==
    /\ parseResult.kind = "None"
    /\ LET r == parse(parser.current)
       IN  /\ parser' = [parser EXCEPT !.current = r.current]
           /\ parseResult' =
                  IF r.status = "ok"
                  THEN [kind |-> "Expr", expr |-> r.expr, msg |-> ""]
                  ELSE [kind |-> "Panic", expr |-> NoExpr, msg |-> r.msg]
    /\ UNCHANGED <<scanner, tokens, scanResult, KEYWORDS, seen, threads, printer, lexer>>

ParserNext == Parse

ParserSpec == ParserInit /\ [][ParserNext]_vars

(***************************************************************************)
(* Helpers of the parser's properties.                                     *)
(***************************************************************************)
ParseEnded == parseResult.kind # "None"

Returned == parseResult.kind = "Expr"

\* the binding level of an operator token: 1 equality, 2 comparison, 3 term,
\* 4 factor
OpLevel(op) ==
    CASE op.kind \in {"Ne", "EqEq"} -> 1
      [] op.kind \in {"Gt", "Ge", "Lt", "Le"} -> 2
      [] op.kind \in {"Plus", "Minus"} -> 3
      [] op.kind \in {"Slash", "Star"} -> 4

\* the level of the grammar an expression is built at: a Binary at the level
\* of its operator, a Unary at 5, a Literal or a Grouping at 6 (primary)
ExprLevel(e) ==
    CASE e.type = "Binary" -> OpLevel(e.op)
      [] e.type = "Unary" -> 5
      [] e.type \in {"Literal", "Grouping"} -> 6

RECURSIVE Layered(_)
\* every Binary node has its left operand at its own level or higher and its
\* right operand strictly higher; every Unary node has its operand at the
\* unary level or higher
Layered(e) ==
    CASE e.type = "Literal" -> TRUE
      [] e.type = "Grouping" -> Layered(e.expr)
      [] e.type = "Unary" -> ExprLevel(e.rhs) >= 5 /\ Layered(e.rhs)
      [] e.type = "Binary" ->
           /\ ExprLevel(e.lhs) >= OpLevel(e.op)
           /\ ExprLevel(e.rhs) > OpLevel(e.op)
           /\ Layered(e.lhs)
           /\ Layered(e.rhs)

SixThreeOne ==
    <<Num("6"), Tok("Slash"), Num("3"), Tok("Minus"), Num("1"), Tok("Eof")>>

\* C2: the tokens of 6/3-1 parse to Binary(Binary(6, /, 3), -, 1), and every
\* tree parse returns follows the ladder: in each Binary node the left
\* operand is built at the operator's level or a higher one and the right
\* operand at a strictly higher one.
C2_PrecedenceLadder ==
    /\ (parser.tokens = SixThreeOne /\ ParseEnded) =>
          /\ Returned
          /\ parseResult.expr =
                 Binary(Binary(Literal(Num("6")), Tok("Slash"), Literal(Num("3"))),
                        Tok("Minus"), Literal(Num("1")))
    /\ Returned => Layered(parseResult.expr)

C2_Witness ==
    /\ Returned
    /\ parseResult.expr.type = "Binary"
    /\ parseResult.expr.lhs.type = "Binary"
    /\ parseResult.expr.rhs.type = "Binary"
    /\ ExprLevel(parseResult.expr.lhs) > ExprLevel(parseResult.expr)
    /\ ExprLevel(parseResult.expr.rhs) > ExprLevel(parseResult.expr)

\* the tokens before the final Eof, all tokens when the last is not Eof
Body(ts) ==
    IF ts # <<>> /\ ts[Len(ts)].kind = "Eof" THEN SubSeq(ts, 1, Len(ts) - 1) ELSE ts

IsLiteralToken(t) == t.kind \in {"Number", "String", "True", "False", "Nil"}

\* ts is a op1 b op2 c ...: literals joined by operators of one level
IsChain(ts, level) ==
    /\ Len(ts) % 2 = 1
    /\ \A i \in DOMAIN ts :
          IF i % 2 = 1 THEN IsLiteralToken(ts[i]) ELSE ts[i] \in OpsOf(level)

RECURSIVE LeftFold(_, _)
\* the left fold of the chain ts[1..k]
LeftFold(ts, k) ==
    IF k = 1 THEN Literal(ts[1])
    ELSE Binary(LeftFold(ts, k - 2), ts[k - 1], Literal(ts[k]))

OneTwoThree ==
    <<Num("1"), Tok("Minus"), Num("2"), Tok("Minus"), Num("3"), Tok("Eof")>>

\* C3: a chain of literals joined by operators of one level parses to its
\* left fold, at each of the four binary levels; the tokens of 1 - 2 - 3
\* parse to Binary(Binary(1, -, 2), -, 3).
C3_LeftAssociative ==
    /\ (ParseEnded /\ \E l \in LevelNames : IsChain(Body(parser.tokens), l)) =>
          /\ Returned
          /\ parseResult.expr = LeftFold(Body(parser.tokens), Len(Body(parser.tokens)))
    /\ (parser.tokens = OneTwoThree /\ ParseEnded) =>
          /\ Returned
          /\ parseResult.expr =
                 Binary(Binary(Literal(Num("1")), Tok("Minus"), Literal(Num("2"))),
                        Tok("Minus"), Literal(Num("3")))

C3_Witness ==
    /\ Returned
    /\ IsChain(Body(parser.tokens), "term")
    /\ Len(Body(parser.tokens)) = 7
    /\ parseResult.expr.lhs.lhs.type = "Binary"

\* C4: a parse that fails ends with an error value handed to the caller of
\* parse, never with a panic.
C4_FailureIsErrorValue == ParseEnded => parseResult.kind \in {"Expr", "Err"}

\* C5: when parse returns a tree, nothing but Eof is left at the cursor.
C5_TreeOnlyWhenAllConsumed == Returned => Parser_is_at_end(parser.current)

(***************************************************************************)
(* Number literals and identifiers.                                        *)
(***************************************************************************)
Max(S) == CHOOSE x \in S : \A y \in S : x >= y

\* the cursor at the end of the maximal run of characters of S that starts
\* at cursor i
RunEnd(i, S) ==
    Max({ j \in i..Len(Src) : \A k \in (i + 1)..j : Src[k] \in S })

\* the cursor past the number literal whose first digit is at the cursor
NumberEnd ==
    LET a == RunEnd(scanner.current + 1, Digits)
    IN  IF a + 2 <= Len(Src) /\ Src[a + 1] = "." /\ Src[a + 2] \in Digits
        THEN RunEnd(a + 2, Digits)
        ELSE a

C11_Step ==
    /\ (Running /\ IsDigit(Cur)) =>
          /\ scanResult'.kind = "None"
          /\ scanner'.line = scanner.line
          /\ scanner'.current = NumberEnd
          /\ tokens' = Append(tokens,
                              TokNumber(ParseF64(SubSeq(Src, scanner.current + 1,
                                                        NumberEnd))))
    /\ (Running /\ Cur = ".") =>
          /\ scanResult'.kind = "None"
          /\ scanner'.current = scanner.current + 1
          /\ tokens' = Append(tokens, Tok("Dot"))

C11_Examples ==
    /\ (Src = <<"1", ".">> /\ ~Running) =>
          /\ scanResult.kind = "Ok"
          /\ scanResult.tokens = <<TokNumber(<<"1">>), Tok("Dot"), Tok("Eof")>>
    /\ (Src = <<"1", ".", "5", ".", "2">> /\ ~Running) =>
          /\ scanResult.kind = "Ok"
          /\ scanResult.tokens =
                 <<TokNumber(<<"1", ".", "5">>), Tok("Dot"), TokNumber(<<"2">>),
                   Tok("Eof")>>

\* C11: a read_token call that starts on a digit consumes the maximal run of
\* digits and, only when a "." followed by a digit comes next, the "." and
\* the maximal run of digits after it, and emits the Number of that text; a
\* "." at the cursor is emitted as Dot; "1." scans to [Number(1), Dot, Eof]
\* and "1.5.2" to [Number(1.5), Dot, Number(2), Eof].
C11_NumberLiteral == [][C11_Step]_vars /\ []C11_Examples

C11_Witness ==
    /\ scanResult.kind = "Ok"
    /\ Len(scanResult.tokens) = 3
    /\ scanResult.tokens[1] = TokNumber(<<"1", ".", "1">>)
    /\ scanResult.tokens[2] = Tok("Dot")

IdentChars == AsciiLetters \cup Digits \cup {"_"}

\* the cursor past the identifier whose first character is at the cursor
IdentEnd == RunEnd(scanner.current + 1, IdentChars)

IdentText == SubSeq(Src, scanner.current + 1, IdentEnd)

ReservedWords == { e[1] : e \in KeywordTable }

ReservedToken(w) == Tok((CHOOSE e \in KeywordTable : e[1] = w)[2])

C12_Step ==
    (Running /\ is_valid_identifier_start(Cur)) =>
        /\ scanResult'.kind = "None"
        /\ scanner'.line = scanner.line
        /\ scanner'.current = IdentEnd
        /\ tokens' = Append(tokens,
                            IF IdentText \in ReservedWords
                            THEN ReservedToken(IdentText)
                            ELSE TokIdent(IdentText))

C12_Examples ==
    ~Running =>
        /\ Src = <<"o", "r">> => scanResult.tokens = <<Tok("Or"), Tok("Eof")>>
        /\ Src = <<"o", "r", "c", "h", "i", "d">> =>
              scanResult.tokens = <<TokIdent(Src), Tok("Eof")>>
        /\ Src = <<"_", "o", "r">> =>
              scanResult.tokens = <<TokIdent(Src), Tok("Eof")>>
        /\ Src = <<"o", "r", "1">> =>
              scanResult.tokens = <<TokIdent(Src), Tok("Eof")>>

\* C12: a read_token call that starts on an ASCII letter or underscore
\* consumes the maximal run of letters, digits and underscores and emits the
\* reserved-word token when the whole run is a reserved word, the Ident of
\* the whole run otherwise; "or" scans to Or, "orchid", "_or" and "or1" each
\* to one Ident.
C12_Identifier == [][C12_Step]_vars /\ []C12_Examples

C12_Witness ==
    /\ scanResult.kind = "Ok"
    /\ scanResult.tokens = <<Tok("Or"), TokIdent(<<"o", "r", "1">>), Tok("Eof")>>

(***************************************************************************)
(* Texts of operators and punctuation only.                                *)
(***************************************************************************)
OperatorChars == SingleChars \cup {"=", "!", ">", "<", "/"}

\* s holds operator and punctuation characters only, and no "//"
OperatorsOnly(s) ==
    /\ \A i \in DOMAIN s : s[i] \in OperatorChars
    /\ \A i \in 1..(Len(s) - 1) : ~(s[i] = "/" /\ s[i + 1] = "/")

RECURSIVE Lexemes(_)
\* the number of lexemes of a text of operators: == != >= <= are one lexeme
Lexemes(s) ==
    IF s = <<>> THEN 0
    ELSE IF Len(s) >= 2 /\ s[1] \in {"=", "!", ">", "<"} /\ s[2] = "="
    THEN 1 + Lexemes(SubSeq(s, 3, Len(s)))
    ELSE 1 + Lexemes(Tail(s))

C13_State ==
    OperatorsOnly(Src) =>
        /\ scanResult.kind \in {"None", "Ok"}
        /\ Running =>
              /\ scanner.current <= Len(Src)
              /\ Len(tokens) = Lexemes(SubSeq(Src, 1, scanner.current))
              /\ ENABLED Next
        /\ scanResult.kind = "Ok" =>
              /\ Len(scanResult.tokens) = Lexemes(Src) + 1
              /\ scanResult.tokens[Len(scanResult.tokens)] = Tok("Eof")

C13_Step ==
    (OperatorsOnly(Src) /\ Running) =>
        \/ scanner'.current > scanner.current
        \/ scanResult'.kind = "Ok"

\* C13: on a text of one- and two-character operator and punctuation lexemes
\* the scan never fails, always has a next step until it returns, every step
\* moves the cursor forward or returns, and it returns as many tokens as the
\* text has lexemes, plus the final Eof.
C13_OperatorTexts == []C13_State /\ [][C13_Step]_vars

C13_Witness ==
    /\ scanResult.kind = "Ok"
    /\ OperatorsOnly(Src)
    /\ Len(Src) = 4
    /\ Len(scanResult.tokens) = 3

(***************************************************************************)
(* The pretty printer (src/src/print.rs).  A text is a sequence of         *)
(* characters.                                                             *)
(***************************************************************************)
OperatorSpelling ==
    { <<"Eq", <<"=">> >>, <<"EqEq", <<"=", "=">> >>, <<"Not", <<"!">> >>,
      <<"Ne", <<"!", "=">> >>, <<"Gt", <<">">> >>, <<"Ge", <<">", "=">> >>,
      <<"Lt", <<"<">> >>, <<"Le", <<"<", "=">> >>, <<"Slash", <<"/">> >> }

\* the spelling of each payload-free token but Eof
Spelling ==
    OperatorSpelling
    \cup { <<e[2], <<e[1]>> >> : e \in SingleCharTokens }
    \cup { <<e[2], e[1]>> : e \in KeywordTable }

\* Token::to_string: a number prints its decimal value (the canonical text
\* that stands for the f64), a string and an identifier their contents, a
\* keyword, operator or punctuation token its spelling
TokenText(t) ==
    IF t.kind \in {"Number", "String", "Ident"} THEN t.val
    ELSE (CHOOSE e \in Spelling : e[1] = t.kind)[2]

RECURSIVE PushRest(_)
\* for item in iter { s.push(' '); s.push_str(&item) }
PushRest(items) ==
    IF items = <<>> THEN <<>>
    ELSE <<" ">> \o Head(items) \o PushRest(Tail(items))

\* parenthesize with the space pushed before every item, the first included
parenthesize_SpaceBeforeFirst(list) == <<"(">> \o PushRest(list) \o <<")">>

\* parenthesize
parenthesize(list) ==
    <<"(">> \o (IF list # <<>> THEN Head(list) ELSE <<>>)
            \o (IF list # <<>> THEN PushRest(Tail(list)) ELSE <<>>)
            \o <<")">>

GroupWord == <<"g", "r", "o", "u", "p">>

RECURSIVE visit_expr(_)
\* PrettyPrinter::visit_expr
visit_expr(expr) ==
    CASE expr.type = "Literal" -> TokenText(expr.tok)
      [] expr.type = "Unary" ->
           parenthesize(<<TokenText(expr.op), visit_expr(expr.rhs)>>)
      [] expr.type = "Binary" ->
           parenthesize(<<TokenText(expr.op), visit_expr(expr.lhs),
                          visit_expr(expr.rhs)>>)
      [] expr.type = "Grouping" -> parenthesize(<<GroupWord, visit_expr(expr.expr)>>)

(***************************************************************************)
(* The printer's specification: visit_expr on an expression.  The          *)
(* expressions are all expressions of at most MaxNodes nodes over          *)
(* PrintLiterals, PrintUnaryOps and PrintBinaryOps, and PrintExamples.     *)
(***************************************************************************)
PrintLiterals == { Num("1"), TokString(<<"a">>), Tok("True") }

PrintUnaryOps == { Tok("Minus"), Tok("Not") }

PrintBinaryOps == { Tok("Star"), Tok("EqEq") }

RECURSIVE ExprsOfSize(_)
ExprsOfSize(n) ==
    IF n = 1 THEN { Literal(t) : t \in PrintLiterals }
    ELSE { Unary(op, x) : op \in PrintUnaryOps, x \in ExprsOfSize(n - 1) }
         \cup { Grouping(x) : x \in ExprsOfSize(n - 1) }
         \cup UNION { { Binary(l, op, r) :
                            l \in ExprsOfSize(k), op \in PrintBinaryOps,
                            r \in ExprsOfSize(n - 1 - k) } : k \in 1..(n - 2) }

\* the expression of tests::test_pretty_print
PrintTestExpr ==
    Binary(Unary(Tok("Minus"), Literal(TokNumber(<<"1", "2", "3">>))),
           Tok("Star"),
           Grouping(Literal(TokNumber(<<"4", "5", ".", "6", "7">>))))

PrintExamples ==
    { PrintTestExpr,
      Binary(Literal(Tok("Nil")), Tok("Le"), Literal(TokIdent(<<"x", "1">>))) }

PrintExprs == UNION { ExprsOfSize(n) : n \in 1..MaxNodes } \cup PrintExamples

PrinterInit ==
    /\ \E x \in PrintExprs : printer = [expr |-> x, out |-> <<>>, done |-> FALSE]
    /\ scanner = IdleScanner
    /\ tokens = <<>>
    /\ scanResult = NoResult
    /\ parser = IdleParser
    /\ parseResult = NoParse
    /\ KEYWORDS = KeywordsUninit
    /\ seen = {}
    /\ threads = IdleThreads
    /\ lexer = IdleLexer

\* printer.visit_expr(&expr)
VisitExpr ==
    /\ ~printer.done
    /\ printer' = [printer EXCEPT !.out = visit_expr(printer.expr), !.done = TRUE]
    /\ UNCHANGED <<scanner, tokens, scanResult, parser, parseResult, KEYWORDS,
                   seen, threads, lexer>>

PrinterNext == VisitExpr

PrinterSpec == PrinterInit /\ [][PrinterNext]_vars

RECURSIVE Rendering(_)
\* the rendering by structural recursion
Rendering(x) ==
    CASE x.type = "Literal" -> TokenText(x.tok)
      [] x.type = "Unary" ->
           <<"(">> \o TokenText(x.op) \o <<" ">> \o Rendering(x.rhs) \o <<")">>
      [] x.type = "Binary" ->
           <<"(">> \o TokenText(x.op) \o <<" ">> \o Rendering(x.lhs) \o <<" ">>
                   \o Rendering(x.rhs) \o <<")">>
      [] x.type = "Grouping" ->
           <<"(">> \o GroupWord \o <<" ">> \o Rendering(x.expr) \o <<")">>

PrintTestText ==
    <<"(", "*", " ", "(", "-", " ", "1", "2", "3", ")", " ",
      "(", "g", "r", "o", "u", "p", " ", "4", "5", ".", "6", "7", ")", ")">>

\* no space after "(", none before ")", no two spaces in a row
SingleSpaced(s) ==
    \A i \in 1..(Len(s) - 1) :
        /\ ~(s[i] = "(" /\ s[i + 1] = " ")
        /\ ~(s[i] = " " /\ s[i + 1] = ")")
        /\ ~(s[i] = " " /\ s[i + 1] = " ")

\* C14: visit_expr renders a Literal as the token's text, a Unary as
\* "(op operand)", a Binary as "(op left right)", a Grouping as
\* "(group inner)", the items one space apart with no space next to a
\* parenthesis; the expression of the test renders as
\* "(* (- 123) (group 45.67))".
C14_Rendering ==
    printer.done =>
        /\ printer.out = Rendering(printer.expr)
        /\ SingleSpaced(printer.out)
        /\ printer.expr = PrintTestExpr => printer.out = PrintTestText

C14_Witness ==
    /\ printer.done
    /\ printer.expr = PrintTestExpr
    /\ Len(printer.out) = 25

(***************************************************************************)
(* Scan after scan in one process: each scan is a Scanner::new and a       *)
(* read_tokens, and the static KEYWORDS is what one scan leaves to the     *)
(* next.  seen records the text and the outcome of every finished scan.    *)
(***************************************************************************)
RescanSources ==
    { <<"o", "r">>,
      <<"o", "r", "1">>,
      <<"a", " ", "o", "r">>,
      <<"1", ".", "5">>,
      <<Quote, "a">>,
      <<"i", "f", "@">>,
      <<"o", "r", EAcute>> }

RescanInit ==
    /\ \E s \in RescanSources : scanner = [source |-> s, line |-> 1, current |-> 0]
    /\ tokens = <<>>
    /\ scanResult = NoResult
    /\ parser = IdleParser
    /\ parseResult = NoParse
    /\ KEYWORDS = KeywordsUninit
    /\ seen = {}
    /\ threads = IdleThreads
    /\ printer = IdlePrinter
    /\ lexer = IdleLexer

\* the scan has returned; Scanner::new(s) starts the next one
Rescan ==
    /\ ~Running
    /\ seen' = seen \cup { <<scanner.source, scanResult>> }
    /\ \E s \in RescanSources : scanner' = [source |-> s, line |-> 1, current |-> 0]
    /\ tokens' = <<>>
    /\ scanResult' = NoResult
    /\ UNCHANGED <<parser, parseResult, KEYWORDS, threads, printer, lexer>>

RescanNext == ReadToken \/ PushEof \/ Rescan

RescanSpec == RescanInit /\ [][RescanNext]_vars

\* the outcomes of the earlier scans of the text scanned now
EarlierOutcomes == { p[2] : p \in { q \in seen : q[1] = scanner.source } }

\* C15: a scan of a text ends as every earlier scan of the same text ended,
\* with the same tokens or the same error, whatever texts were scanned
\* before it and between the two.
C15_ScanIdempotent ==
    ~Running => \A o \in EarlierOutcomes : o = scanResult

C15_Witness ==
    /\ scanResult.kind = "Ok"
    /\ scanResult.tokens = <<Tok("Or"), Tok("Eof")>>
    /\ scanResult \in EarlierOutcomes
    /\ Cardinality(seen) >= 3
    /\ KEYWORDS.state = "complete"

(***************************************************************************)
(* Grouping and unary expressions.                                         *)
(***************************************************************************)
RECURSIVE CountNodes(_, _)
\* the number of nodes of type ty in the expression e
CountNodes(e, ty) ==
    (IF e.type = ty THEN 1 ELSE 0)
    + CASE e.type = "Literal" -> 0
        [] e.type = "Grouping" -> CountNodes(e.expr, ty)
        [] e.type = "Unary" -> CountNodes(e.rhs, ty)
        [] e.type = "Binary" -> CountNodes(e.lhs, ty) + CountNodes(e.rhs, ty)

\* the number of tokens of kind k among the tokens parse consumed
Consumed(k) ==
    Cardinality({ i \in 1..parser.current : parser.tokens[i].kind = k })

\* the token at cursor cur is the payload-free token of kind k
TokenIs(cur, k) == Parser_has(cur) /\ Parser_peek(cur) = Tok(k)

\* parse_primary at a LeftParen at cursor cur: the expression after it, then
\* the RightParen, give the Grouping of that expression; with no RightParen
\* there, and when the expression fails, no tree comes back
GroupingAt(cur) ==
    LET inner == parse_expression(cur + 1)
        r == parse_primary(cur)
    IN  CASE inner.status = "panic" -> r = inner
          [] inner.status = "ok" /\ TokenIs(inner.current, "RightParen") ->
               r = Parsed(Grouping(inner.expr), inner.current + 1)
          [] OTHER ->
               /\ r.status = "panic"
               /\ r.expr = NoExpr
               /\ r.msg = "Missing closing parenthesis"

OneTimesGroup ==
    <<Num("1"), Tok("Star"), Tok("LeftParen"), Num("2"), Tok("Plus"), Num("3"),
      Tok("RightParen"), Tok("Eof")>>

\* C16: parse_primary at a LeftParen parses a full expression and requires a
\* RightParen next; it then consumes the RightParen and returns the Grouping
\* of the inner expression, never the inner expression itself, and without
\* the RightParen (at Eof too) it fails and returns no tree.  A tree parse
\* returns has one Grouping node for each LeftParen consumed and for each
\* RightParen consumed.
C16_Grouping ==
    /\ \A cur \in 0..Len(parser.tokens) : TokenIs(cur, "LeftParen") => GroupingAt(cur)
    /\ Returned =>
          /\ CountNodes(parseResult.expr, "Grouping") = Consumed("LeftParen")
          /\ CountNodes(parseResult.expr, "Grouping") = Consumed("RightParen")
    /\ (ParseEnded /\ parser.tokens = <<Tok("LeftParen"), Num("1"), Tok("Eof")>>) =>
          /\ parseResult.kind = "Panic"
          /\ parseResult.msg = "Missing closing parenthesis"

C16_Witness ==
    /\ Returned
    /\ parser.tokens = OneTimesGroup
    /\ parseResult.expr.rhs =
           Grouping(Binary(Literal(Num("2")), Tok("Plus"), Literal(Num("3"))))
    /\ parser.current = 7

UnaryOps == { Tok("Not"), Tok("Minus") }

\* ts is a run of "!" and "-" tokens, none or more, and then one literal
IsPrefixChain(ts) ==
    /\ ts # <<>>
    /\ IsLiteralToken(ts[Len(ts)])
    /\ \A i \in 1..(Len(ts) - 1) : ts[i] \in UnaryOps

RECURSIVE NestUnary(_, _)
\* the prefix chain ts[i..] nested to the right, its first operator outermost
NestUnary(ts, i) ==
    IF i = Len(ts) THEN Literal(ts[i]) ELSE Unary(ts[i], NestUnary(ts, i + 1))

RECURSIVE UnaryOverBinary(_)
\* no Unary node has a Binary node as its operand
UnaryOverBinary(e) ==
    CASE e.type = "Literal" -> TRUE
      [] e.type = "Grouping" -> UnaryOverBinary(e.expr)
      [] e.type = "Unary" -> e.rhs.type # "Binary" /\ UnaryOverBinary(e.rhs)
      [] e.type = "Binary" -> UnaryOverBinary(e.lhs) /\ UnaryOverBinary(e.rhs)

RECURSIVE CountOps(_, _, _)
\* the number of nodes of type ty whose operator is the token op
CountOps(e, ty, op) ==
    (IF e.type = ty /\ e.op = op THEN 1 ELSE 0)
    + CASE e.type = "Literal" -> 0
        [] e.type = "Grouping" -> CountOps(e.expr, ty, op)
        [] e.type = "Unary" -> CountOps(e.rhs, ty, op)
        [] e.type = "Binary" -> CountOps(e.lhs, ty, op) + CountOps(e.rhs, ty, op)

\* an operand is expected at token i: at the start, after an operator and
\* after a LeftParen, not after a literal or a RightParen
OperandExpected(i) ==
    i = 1 \/ ~(IsLiteralToken(parser.tokens[i - 1])
               \/ parser.tokens[i - 1].kind = "RightParen")

\* the consumed Minus tokens that stand where an operand is expected
MinusAsOperand ==
    { i \in 1..parser.current :
          parser.tokens[i] = Tok("Minus") /\ OperandExpected(i) }

NotMinusOne == <<Tok("Not"), Tok("Minus"), Num("1"), Tok("Eof")>>

MinusOneTimesTwo == <<Tok("Minus"), Num("1"), Tok("Star"), Num("2"), Tok("Eof")>>

\* C17: a run of "!" and "-" tokens before a literal parses to nested Unary
\* nodes, the first operator outermost (!-1 to Unary(!, Unary(-, 1))); a
\* Unary node never has a Binary operand (-1*2 parses to
\* Binary(Unary(-, 1), *, 2)); and a consumed Minus is the operator of a
\* Unary node exactly when it stands where an operand is expected, of a
\* Binary node otherwise.
C17_Unary ==
    /\ (ParseEnded /\ IsPrefixChain(Body(parser.tokens))) =>
          /\ Returned
          /\ parseResult.expr = NestUnary(Body(parser.tokens), 1)
    /\ (ParseEnded /\ parser.tokens = NotMinusOne) =>
          /\ Returned
          /\ parseResult.expr =
                 Unary(Tok("Not"), Unary(Tok("Minus"), Literal(Num("1"))))
    /\ (ParseEnded /\ parser.tokens = MinusOneTimesTwo) =>
          /\ Returned
          /\ parseResult.expr =
                 Binary(Unary(Tok("Minus"), Literal(Num("1"))), Tok("Star"),
                        Literal(Num("2")))
    /\ Returned =>
          /\ UnaryOverBinary(parseResult.expr)
          /\ CountOps(parseResult.expr, "Unary", Tok("Minus"))
                 = Cardinality(MinusAsOperand)
          /\ CountOps(parseResult.expr, "Binary", Tok("Minus"))
                 = Consumed("Minus") - Cardinality(MinusAsOperand)

C17_Witness ==
    /\ Returned
    /\ parser.tokens = <<Num("1"), Tok("Minus"), Tok("Minus"), Num("1")>>
    /\ parseResult.expr =
           Binary(Literal(Num("1")), Tok("Minus"),
                  Unary(Tok("Minus"), Literal(Num("1"))))

(***************************************************************************)
(* The parser's cursor.                                                    *)
(***************************************************************************)
EofIndexes == { i \in DOMAIN parser.tokens : parser.tokens[i].kind = "Eof" }

\* the cursor at the first Eof token, at tokens.len() when there is none
EofLimit == IF EofIndexes # {} THEN Min(EofIndexes) - 1 ELSE Len(parser.tokens)

\* the token lists the parser calls match_any with, and the Eof token itself
MatchLists ==
    { BinaryOps(l) : l \in LevelNames }
    \cup { <<"Not", "Minus">>, <<"False", "True", "Nil">>, <<"LeftParen">>,
           <<"RightParen">>, <<"Eof">> }

\* the results of the match calls at cursor cur
MatchesAt(cur) ==
    { match_any(cur, ks) : ks \in MatchLists }
    \cup { match_number(cur), match_string(cur) }

\* the match calls and advance at cursor cur: a match moves the cursor by
\* one, no match leaves it; at the end nothing matches and advance does
\* nothing; the cursor stays within the limit
CursorAt(cur) ==
    /\ \A m \in MatchesAt(cur) :
          /\ m.current = (IF m.matched THEN cur + 1 ELSE cur)
          /\ m.current <= EofLimit
          /\ Parser_is_at_end(cur) => ~m.matched
    /\ Parser_advance(cur) \in {cur, cur + 1}
    /\ Parser_advance(cur) <= EofLimit
    /\ Parser_is_at_end(cur) <=> cur = EofLimit
    /\ Parser_is_at_end(cur) => Parser_advance(cur) = cur

C18_State ==
    /\ parser.current <= EofLimit
    /\ \A cur \in 0..EofLimit : CursorAt(cur)

C18_Step == parser'.current >= parser.current

\* C18: the parser's cursor never decreases; a match_any, match_number or
\* match_string call leaves it (no match) or moves it by exactly one
\* (match); it never passes the first Eof token, nor tokens.len() when
\* there is no Eof: once is_at_end holds no match succeeds and advance
\* leaves the cursor where it is.
C18_Cursor == []C18_State /\ [][C18_Step]_vars

C18_Witness ==
    /\ Returned
    /\ parser.tokens = <<Num("1"), Tok("Eof"), Tok("Minus"), Num("1")>>
    /\ parser.current = 1
    /\ EofLimit = 1

(***************************************************************************)
(* The line counter.                                                       *)
(***************************************************************************)
\* the number of newline characters among the characters consumed
NewlinesConsumed ==
    Cardinality({ i \in 1..scanner.current : i <= Len(Src) /\ Src[i] = Newline })

C19_State ==
    scanResult.kind \in {"None", "Ok"} => scanner.line = 1 + NewlinesConsumed

C19_Step ==
    (Running /\ Cur \in {" ", "\r", "\t"}) =>
        /\ scanner'.current = scanner.current + 1
        /\ scanner'.line = scanner.line
        /\ tokens' = tokens
        /\ scanResult' = scanResult

LinesSource == <<"/", "/", Newline, Quote, Newline, Quote, " ", Newline>>

\* C19: between two read_token calls the line counter is 1 plus the number
\* of newline characters consumed so far, consumed as whitespace, inside a
\* string literal or at the end of a line comment; a space, a carriage
\* return and a tab each consume one character, emit no token and leave the
\* line counter as it is.
C19_LineCounter == []C19_State /\ [][C19_Step]_vars

C19_Witness ==
    /\ Running
    /\ Src = LinesSource
    /\ scanner.current = 8
    /\ scanner.line = 4
    /\ tokens = <<TokString(<<Newline>>)>>

(***************************************************************************)
(* keyword() called from several threads.  KEYWORDS.get_or_init is the     *)
(* OnceLock's: a thread that finds the cell initialised reads it; of the   *)
(* threads that do not, one runs the closure and stores the table, and the *)
(* others block until it has.  Each thread records how it came by the      *)
(* table (via) and how many times it ran the closure (built).              *)
(***************************************************************************)
LookupWords == { <<"o", "r">>, <<"p", "r", "i", "n", "t">>, <<"o", "r", "1">> }

ThreadIds == 1..NumThreads

\* a thread entering keyword(w)
Lookup(w, built) ==
    [pc |-> "call", word |-> w, local |-> {}, result |-> {}, via |-> "none",
     built |-> built]

KeywordInit ==
    /\ threads \in [ThreadIds -> { Lookup(w, 0) : w \in LookupWords }]
    /\ KEYWORDS = KeywordsUninit
    /\ scanner = IdleScanner
    /\ tokens = <<>>
    /\ scanResult = NoResult
    /\ parser = IdleParser
    /\ parseResult = NoParse
    /\ seen = {}
    /\ printer = IdlePrinter
    /\ lexer = IdleLexer

Goto(t, pc, via) == [threads EXCEPT ![t].pc = pc, ![t].via = via]

\* get_or_init: the cell is read; initialised, its value is returned
IsInitialized(t) ==
    /\ threads[t].pc = "call"
    /\ threads' = IF KEYWORDS.state = "complete"
                  THEN Goto(t, "get", "initialized")
                  ELSE Goto(t, "once", "none")
    /\ UNCHANGED <<scanner, tokens, scanResult, parser, parseResult, KEYWORDS,
                   seen, printer, lexer>>

\* CallOnce with no exclusion: the closure is run whenever the cell holds no
\* table yet
CallOnce_NoExclusion(t) ==
    /\ threads[t].pc = "once"
    /\ IF KEYWORDS.state # "complete"
       THEN /\ KEYWORDS' = KeywordsRunning
            /\ threads' = Goto(t, "closure", "built")
       ELSE /\ threads' = Goto(t, "get", "late")
            /\ UNCHANGED KEYWORDS
    /\ UNCHANGED <<scanner, tokens, scanResult, parser, parseResult, seen, printer, lexer>>

\* get_or_init, the cell found not initialised: the first thread here is
\* to run the closure, a thread that comes while it runs blocks, a thread
\* that comes after it takes the value
CallOnce(t) ==
    /\ threads[t].pc = "once"
    /\ CASE KEYWORDS.state = "uninit" ->
              /\ KEYWORDS' = KeywordsRunning
              /\ threads' = Goto(t, "closure", "built")
         [] KEYWORDS.state = "running" ->
              /\ threads' = Goto(t, "wait", "waited")
              /\ UNCHANGED KEYWORDS
         [] KEYWORDS.state = "complete" ->
              /\ threads' = Goto(t, "get", "late")
              /\ UNCHANGED KEYWORDS
    /\ UNCHANGED <<scanner, tokens, scanResult, parser, parseResult, seen, printer, lexer>>

\* the closure: a HashMap of the thread's own, with the sixteen inserts
Closure(t) ==
    /\ threads[t].pc = "closure"
    /\ threads' = [threads EXCEPT ![t].pc = "store",
                                  ![t].local = KeywordTable,
                                  ![t].built = threads[t].built + 1]
    /\ UNCHANGED <<scanner, tokens, scanResult, parser, parseResult, KEYWORDS,
                   seen, printer, lexer>>

\* the closure's value is stored in the cell, and the cell is initialised
Store(t) ==
    /\ threads[t].pc = "store"
    /\ KEYWORDS' = KeywordsComplete(threads[t].local)
    /\ threads' = [threads EXCEPT ![t].pc = "get", ![t].local = {}]
    /\ UNCHANGED <<scanner, tokens, scanResult, parser, parseResult, seen, printer, lexer>>

\* a blocked thread goes on once the cell is initialised
Wake(t) ==
    /\ threads[t].pc = "wait"
    /\ KEYWORDS.state = "complete"
    /\ threads' = [threads EXCEPT ![t].pc = "get"]
    /\ UNCHANGED <<scanner, tokens, scanResult, parser, parseResult, KEYWORDS,
                   seen, printer, lexer>>

\* .get(s) on the table get_or_init returned
Get(t) ==
    /\ threads[t].pc = "get"
    /\ threads' =
           [threads EXCEPT
                ![t].pc = "done",
                ![t].result = { Tok(x[2]) : x \in { y \in KEYWORDS.table :
                                                        y[1] = threads[t].word } }]
    /\ UNCHANGED <<scanner, tokens, scanResult, parser, parseResult, KEYWORDS,
                   seen, printer, lexer>>

\* the thread calls keyword() again
LookupAgain(t) ==
    /\ threads[t].pc = "done"
    /\ \E w \in LookupWords : threads' = [threads EXCEPT ![t] = Lookup(w, threads[t].built)]
    /\ UNCHANGED <<scanner, tokens, scanResult, parser, parseResult, KEYWORDS,
                   seen, printer, lexer>>

KeywordNext ==
    \E t \in ThreadIds :
        \/ IsInitialized(t)
        \/ CallOnce(t)
        \/ Closure(t)
        \/ Store(t)
        \/ Wake(t)
        \/ Get(t)
        \/ LookupAgain(t)

KeywordSpec == KeywordInit /\ [][KeywordNext]_vars

RECURSIVE SumBuilt(_)
\* the number of runs of the closure, over the threads 1..n
SumBuilt(n) == IF n = 0 THEN 0 ELSE threads[n].built + SumBuilt(n - 1)

Builds == SumBuilt(NumThreads)

\* the reserved words the table is to hold, and the token of each
ListedWords ==
    { <<<<"t", "r", "u", "e">>, Tok("True")>>,
      <<<<"f", "a", "l", "s", "e">>, Tok("False")>>,
      <<<<"a", "n", "d">>, Tok("And")>>,
      <<<<"o", "r">>, Tok("Or")>>,
      <<<<"i", "f">>, Tok("If")>>,
      <<<<"e", "l", "s", "e">>, Tok("Else")>>,
      <<<<"f", "o", "r">>, Tok("For")>>,
      <<<<"w", "h", "i", "l", "e">>, Tok("While")>>,
      <<<<"n", "i", "l">>, Tok("Nil")>>,
      <<<<"f", "u", "n">>, Tok("Fun")>>,
      <<<<"c", "l", "a", "s", "s">>, Tok("Class")>>,
      <<<<"r", "e", "t", "u", "r", "n">>, Tok("Return")>>,
      <<<<"s", "u", "p", "e", "r">>, Tok("Super")>>,
      <<<<"t", "h", "i", "s">>, Tok("This")>>,
      <<<<"v", "a", "r">>, Tok("Var")>>,
      <<<<"p", "r", "i", "n", "t">>, Tok("Print")>> }

\* the table of the cell maps n reserved words, the listed ones, each to
\* its token
HoldsListed(n) ==
    /\ { <<x[1], Tok(x[2])>> : x \in KEYWORDS.table } = ListedWords
    /\ Cardinality({ x[1] : x \in KEYWORDS.table }) = n
    /\ Cardinality(KEYWORDS.table) = n

\* the token of the word w in the listed words, as keyword() returns it
Listed(w) == { x[2] : x \in { y \in ListedWords : y[1] = w } }

\* the table is built once, on the first lookup, and not before; a lookup
\* that has returned has seen the whole table
BuiltOnce(n) ==
    /\ Builds <= 1
    /\ KEYWORDS.state = "uninit" => Builds = 0
    /\ KEYWORDS.state = "complete" => Builds = 1 /\ HoldsListed(n)
    /\ \A t \in ThreadIds :
          /\ threads[t].pc \in {"get", "done"} => KEYWORDS.state = "complete"
          /\ threads[t].pc = "done" => threads[t].result = Listed(threads[t].word)

\* the statement with the count of 15 reserved words
C20_FifteenWords == BuiltOnce(15)

C20_Step == KEYWORDS.state = "complete" => KEYWORDS' = KEYWORDS

\* C20: the keyword table maps the 16 reserved words true, false, and, or,
\* if, else, for, while, nil, fun, class, return, super, this, var and
\* print to their tokens; it is built exactly once, on the first lookup,
\* even when lookups race; every lookup, the first and the concurrent ones
\* included, observes the complete table; and once built its contents
\* never change.
C20_KeywordTable == []BuiltOnce(16) /\ [][C20_Step]_vars

C20_Witness ==
    /\ KEYWORDS.state = "complete"
    /\ \A t \in ThreadIds : threads[t].pc = "done"
    /\ { threads[t].via : t \in ThreadIds } = {"built", "waited", "late"}
    /\ \E t \in ThreadIds :
          threads[t].via = "waited" /\ threads[t].result = {Tok("Print")}
    /\ \E t \in ThreadIds : threads[t].result = {}
    /\ Builds = 1

(***************************************************************************)
(* advance and the end of the text.                                        *)
(***************************************************************************)
\* C21: advance is never called with no character at the cursor, whatever
\* the text, multi-byte characters included: a read_token call is entered
\* with a character at the cursor, and no call inside read_token,
\* string_lit or comment makes the expect of advance fire.
C21_AdvanceNeverPanics ==
    /\ (Running /\ ~is_at_end(scanner.current)) => ~AdvancePanics(scanner.current)
    /\ scanResult.kind # "Panic"

(***************************************************************************)
(* The Lexer of main.rs, the tokenizer interpret calls, side by side with  *)
(* the Scanner of scanner.rs on the same text.  The procedures of Lexer    *)
(* under read_tokens (read_token, string_lit, number_lit, identifier,      *)
(* comment, next_matches, advance, peek, peek_next, is_at_end, keyword)    *)
(* are those of Scanner word for word, so the operators above stand for    *)
(* both; read_tokens differs.  The Lexer steps first, the Scanner follows. *)
(***************************************************************************)
AgreeSources == BoundedSeq(SourceAlphabet, MaxSrcLen - 1) \cup ExampleSources

\* interpret(source): Lexer::new(source); and Scanner::new on the same text
AgreeInit ==
    /\ \E s \in AgreeSources :
          /\ scanner = [source |-> s, line |-> 1, current |-> 0]
          /\ lexer = LexerAt(s, 0, 1, <<>>, NoResult, <<0, 1, <<>>>>)
    /\ tokens = <<>>
    /\ scanResult = NoResult
    /\ parser = IdleParser
    /\ parseResult = NoParse
    /\ KEYWORDS = KeywordsUninit
    /\ seen = {}
    /\ threads = IdleThreads
    /\ printer = IdlePrinter

LexerRunning == lexer.result.kind = "None"

\* where the Lexer is: its cursor, its line counter, its tokens so far
LexerPlace == <<lexer.current, lexer.line, lexer.tokens>>

\* one iteration of the while loop of Lexer::read_tokens; the keyword table
\* of main.rs is a static of its own keyword(), with the same sixteen entries
LexerReadToken ==
    /\ LexerRunning
    /\ ~is_at_end(lexer.current)
    /\ LET r == read_token(lexer.current, lexer.line)
       IN  lexer' =
             CASE r.status = "ok" ->
                    LexerAt(lexer.source, r.current, r.line, lexer.tokens \o r.val,
                            lexer.result, LexerPlace)
               [] r.status = "err" ->
                    LexerAt(lexer.source, r.current, r.line, <<>>,
                            [kind |-> "Err", tokens |-> <<>>, err |-> r.err],
                            LexerPlace)
               [] r.status = "panic" ->
                    LexerAt(lexer.source, r.current, r.line, <<>>,
                            [kind |-> "Panic", tokens |-> <<>>, err |-> NoErr],
                            LexerPlace)
    /\ UNCHANGED <<scanner, tokens, scanResult, parser, parseResult, KEYWORDS,
                   seen, threads, printer>>

\* the exit of the loop of Lexer::read_tokens: Ok(tokens)
LexerReturn ==
    /\ LexerRunning
    /\ is_at_end(lexer.current)
    /\ lexer' = LexerAt(lexer.source, lexer.current, lexer.line, <<>>,
                        [kind |-> "Ok", tokens |-> lexer.tokens, err |-> NoErr],
                        LexerPlace)
    /\ UNCHANGED <<scanner, tokens, scanResult, parser, parseResult, KEYWORDS,
                   seen, threads, printer>>

\* the Lexer steps when the Scanner has caught up with it
LexerTurn == lexer.current = scanner.current /\ LexerRunning

AgreeNext ==
    \/ LexerTurn /\ LexerReadToken
    \/ LexerTurn /\ LexerReturn
    \/ ~LexerTurn /\ ReadToken
    \/ ~LexerTurn /\ PushEof

AgreeSpec == AgreeInit /\ [][AgreeNext]_vars

\* where the Scanner is
ScannerPlace == <<scanner.current, scanner.line, tokens>>

\* the two agree up to here: the Scanner is where the Lexer is, or where the
\* Lexer was before the step the Scanner has yet to take; and what the two
\* return is the same, with the same tokens or the same error
Agree(lexerResult) ==
    /\ lexer.source = scanner.source
    /\ Running => ScannerPlace = (IF LexerTurn THEN LexerPlace ELSE lexer.prev)
    /\ ~Running =>
          /\ ~LexerRunning
          /\ scanner.current = lexer.current
          /\ scanner.line = lexer.line
          /\ scanResult = lexerResult

\* C22: stepped side by side on one text, Lexer::read_tokens of main.rs and
\* Scanner::read_tokens keep the same cursor and the same line counter,
\* fail on the same texts with the same error, and on success return the
\* same tokens: what interpret hands on ends with Eof as the Scanner's
\* tokens do.
C22_TokenizersAgree == Agree(lexer.result)

\* the result of the Lexer with the Eof its read_tokens does not push
LexerResultWithEof ==
    IF lexer.result.kind = "Ok"
    THEN [lexer.result EXCEPT !.tokens = Append(lexer.result.tokens, Tok("Eof"))]
    ELSE lexer.result

\* the two tokenizers differ by the final Eof and by nothing else
AgreeButForEof == Agree(LexerResultWithEof)

====
